---- MODULE Spec2Model ----
(***************************************************************************)
(* Historian_app backend: the chunked fetch / bucket / merge pipeline of   *)
(* backend/historian_processor.py, the /api/process and /api/export        *)
(* handlers of backend/app.py, and backend/connection_pool.py.             *)
(*                                                                         *)
(* Time is counted in units of 8 hours, so that the one-day chunk of       *)
(* process_data_in_chunks is 3 units and the bucket intervals 1 (8 h,      *)
(* divides a day) and 2 (16 h, does not divide a day) are both present.    *)
(* A bucket mean is an exact fraction <<numerator, denominator>> in lowest *)
(* terms; NaN, the empty cell of a pandas frame, is <<0, 0>>.              *)
(***************************************************************************)
EXTENDS Integers, Sequences, FiniteSets, TLC

VARIABLES
    \* ---- the store and the request ----
    TagData,              \* table TagData: TagName -> its rows [ts, val]
    start_date,           \* request range [start_date, end_date)
    end_date,
    frequency,            \* [parse_ok, total]: the "HH:MM:SS" string, parsed
    config_tags,          \* the tags read from the configuration file
    \* ---- OptimizedHistorianProcessor.process_data, one call ----
    tag,                  \* the tag fetched
    pc,                   \* position of the call
    current_chunk_start,  \* locals of process_data_in_chunks
    current_chunk_end,
    dataframes,           \* process_data: the chunks kept so far
    result,               \* the value process_data returned
    last_query,           \* the last chunk query issued and how it ended
    \* ---- OptimizedHistorianProcessor.merge_dataframes, one call ----
    dfs,                  \* the dict argument, in insertion order: [tag, df]
    merged_df,            \* the frame returned
    merge_pc,             \* "idle", "call" or "returned"
    \* ---- OptimizedHistorianProcessor.validate_tags, one call ----
    validate_pc,          \* position of the call
    validate_i,           \* position of the loop in the input list
    valid_tags,           \* the local list valid_tags
    validate_result,      \* the list returned
    checks,               \* how the existence check of each tag so far ended
    \* ---- app.process_data, one /api/process request ----
    api_pc,               \* position of the handler
    api_valid_tags,       \* what validate_tags returned
    api_i,                \* position of the loop over api_valid_tags
    api_dataframes,       \* the dict dataframes, in insertion order
    api_returned,         \* tags for which process_data returned a series
    api_merged,           \* merged_df
    response,             \* the response sent
    remote_calls,         \* the methods that have called the database so far
    \* ---- app.export_data, one /api/export request ----
    ihrawdata,            \* the historian behind OPENQUERY: tagname -> rows
    export_tags,          \* the request's tags
    start_time,           \* the request's range, both ends inclusive
    end_time,
    export_pc,            \* position of the handler
    export_i,             \* position of the loop over export_tags
    current_time,         \* start of the next chunk
    all_data,             \* the rows fetched so far: [tagname, timestamp, value]
    pivoted_df,           \* the table written
    export_response,      \* the response sent
    \* ---- ConnectionPool and the threads that use connections ----
    pool_size,            \* the constructor's pool_size
    pool,                 \* self.pool, the queue of idle handles, oldest first
    thread_pc,            \* position of each thread
    connection,           \* the handle each thread holds, NoConnection if none
    outcome,              \* how the last with-block of each thread ended
    opened,               \* connections opened by get_db_connection and not closed
    \* ---- the gap fill of merge_dataframes applied to a table ----
    gap_input,            \* the table drawn
    gap_table,            \* the table after gap_count fills
    gap_count

envVars == <<TagData, start_date, end_date, frequency, config_tags>>

fetchVars == <<tag, pc, current_chunk_start, current_chunk_end, dataframes,
               result, last_query>>

mergeVars == <<dfs, merged_df, merge_pc>>

validateVars == <<validate_pc, validate_i, valid_tags, validate_result, checks>>

apiVars == <<api_pc, api_valid_tags, api_i, api_dataframes, api_returned,
             api_merged, response, remote_calls>>

exportVars == <<ihrawdata, export_tags, start_time, end_time, export_pc, export_i,
                current_time, all_data, pivoted_df, export_response>>

poolVars == <<pool_size, pool, thread_pc, connection, outcome, opened>>

gapVars == <<gap_input, gap_table, gap_count>>

vars == <<envVars, fetchVars, mergeVars, validateVars, apiVars, exportVars,
          poolVars, gapVars>>

\* What the steps of one component leave alone.
fetchOthers == <<envVars, mergeVars, validateVars, apiVars, exportVars, poolVars, gapVars>>

mergeOthers == <<envVars, fetchVars, validateVars, apiVars, exportVars, poolVars, gapVars>>

validateOthers == <<envVars, fetchVars, mergeVars, apiVars, exportVars, poolVars, gapVars>>

apiOthers == <<envVars, fetchVars, mergeVars, validateVars, exportVars, poolVars, gapVars>>

exportOthers == <<envVars, fetchVars, mergeVars, validateVars, apiVars, poolVars, gapVars>>

poolOthers == <<envVars, fetchVars, mergeVars, validateVars, apiVars, exportVars, gapVars>>

gapOthers == <<envVars, fetchVars, mergeVars, validateVars, apiVars, exportVars, poolVars>>

----------------------------------------------------------------------------
(* Bounds of the model *)

MaxStart == 1      \* a request starts at 0..MaxStart
MaxEnd == 7        \* and ends at most at MaxEnd; samples lie in [0, MaxEnd)
MaxSamples == 2    \* rows of TagData for one tag
MaxInterval == 2   \* largest bucket interval
MaxBucket == 3     \* merge inputs have buckets at 0, 60, ..., 60 * MaxBucket
MaxConfigTags == 2 \* tags in a configuration file

\* chunk_size = timedelta(days=1): one day, in units of 8 hours.
chunk_size == 3

\* The Value column of a row: <<v>> is the number v, NULL is SQL NULL.
Values == {1, 3}
NULL == <<>>

----------------------------------------------------------------------------
(* Values: fractions, NaN, None, data frames *)

Abs(n) == IF n < 0 THEN -n ELSE n

RECURSIVE GCD(_, _)
GCD(a, b) == IF b = 0 THEN a ELSE GCD(b, a % b)

\* The float a / b, kept exact.
Frac(a, b) == LET g == GCD(Abs(a), b) IN <<a \div g, b \div g>>

NaN == <<0, 0>>

None == [none |-> TRUE]

\* pd.DataFrame: an index, column names, and one row of cells per index entry.
DataFrame(index, columns, data) ==
    [none |-> FALSE, index |-> index, columns |-> columns, data |-> data]

Range(s) == {s[i] : i \in 1..Len(s)}

\* The sum of the Value column over a set of rows.
RECURSIVE SumVal(_)
SumVal(S) ==
    IF S = {} THEN 0
    ELSE LET x == CHOOSE y \in S : TRUE IN x.val[1] + SumVal(S \ {x})

\* The elements of a finite set of integers in ascending order.
RECURSIVE SortedSeq(_)
SortedSeq(S) ==
    IF S = {} THEN <<>>
    ELSE LET m == CHOOSE x \in S : \A y \in S : x <= y
         IN <<m>> \o SortedSeq(S \ {m})

StrictlyIncreasing(s) == \A i \in 1..(Len(s) - 1) : s[i] < s[i + 1]

----------------------------------------------------------------------------
(* The bucket query of process_data_in_chunks *)

\* SQL Server integer division: truncates toward zero.
TruncDiv(a, b) ==
    LET q == Abs(a) \div Abs(b) IN IF (a < 0) = (b < 0) THEN q ELSE -q

\* The DATEADD/DATEDIFF reference point the query is given for a chunk.
QueryOriginRequestStart(request_start, chunk_start) == request_start

QueryOrigin(request_start, chunk_start) == chunk_start

\* DATEADD(SECOND, (DATEDIFF(SECOND, origin, Timestamp) / i) * i, origin)
bucket_timestamp(origin, interval_seconds, ts) ==
    origin + TruncDiv(ts - origin, interval_seconds) * interval_seconds

\* The rows the query returns for the window [lo, hi): one row per bucket
\* that holds a non-NULL sample, ascending, with the mean of its samples.
BucketQuery(rows, origin, interval_seconds, lo, hi) ==
    LET TimeBuckets == {r \in rows : r.ts >= lo /\ r.ts < hi /\ r.val # NULL}
        bucket(r) == bucket_timestamp(origin, interval_seconds, r.ts)
        stamps == SortedSeq({bucket(r) : r \in TimeBuckets})
        members(b) == {r \in TimeBuckets : bucket(r) = b}
        avg(b) == Frac(SumVal(members(b)), Cardinality(members(b)))
    IN [i \in 1..Len(stamps) |-> [timestamp |-> stamps[i], value |-> avg(stamps[i])]]

\* df_chunk: the fetched rows as a frame indexed by timestamp, one column.
ChunkFrame(rows, column) ==
    DataFrame([i \in 1..Len(rows) |-> rows[i].timestamp],
              <<column>>,
              [i \in 1..Len(rows) |-> <<rows[i].value>>])

\* verify_data_exists, when its connection and queries succeed.
verify_data_exists(rows, lo, hi) ==
    /\ rows # {}
    /\ \E r \in rows : r.ts >= lo /\ r.ts < hi

\* max().
Max(a, b) == IF a > b THEN a ELSE b

Min(a, b) == IF a < b THEN a ELSE b

----------------------------------------------------------------------------
(* pd.concat and sort_index of process_data *)

RECURSIVE ConcatIndex(_)
ConcatIndex(frames) ==
    IF frames = <<>> THEN <<>> ELSE Head(frames).index \o ConcatIndex(Tail(frames))

RECURSIVE ConcatData(_)
ConcatData(frames) ==
    IF frames = <<>> THEN <<>> ELSE Head(frames).data \o ConcatData(Tail(frames))

pd_concat(frames) == DataFrame(ConcatIndex(frames), Head(frames).columns, ConcatData(frames))

\* Positions of s in ascending order of s[i], equal keys in their given order.
RECURSIVE SortPerm(_, _)
SortPerm(s, left) ==
    IF left = {} THEN <<>>
    ELSE LET m == CHOOSE i \in left :
                    \A j \in left : s[i] < s[j] \/ (s[i] = s[j] /\ i <= j)
         IN <<m>> \o SortPerm(s, left \ {m})

sort_index(df) ==
    LET p == SortPerm(df.index, 1..Len(df.index))
    IN DataFrame([i \in 1..Len(p) |-> df.index[p[i]]],
                 df.columns,
                 [i \in 1..Len(p) |-> df.data[p[i]]])

----------------------------------------------------------------------------
(* process_data for one tag, step by step *)

NoQuery == [issued |-> FALSE]

Query(lo, hi, ok) == [issued |-> TRUE, chunk_start |-> lo, chunk_end |-> hi, ok |-> ok]

Rows == [ts : 0..(MaxEnd - 1), val : {<<v>> : v \in Values} \cup {NULL}]

\* The sets of at most MaxSamples rows.
RowSets == {{}} \cup {{f[i] : i \in 1..MaxSamples} : f \in [1..MaxSamples -> Rows]}

\* The frequency strings: those that split into three integers, of total
\* 0..MaxInterval or, with a negative field as in '-08:00:00', of total -1;
\* and one that does not parse.
Frequencies == [parse_ok : {TRUE}, total : {-1} \cup 0..MaxInterval]
                   \cup {[parse_ok |-> FALSE, total |-> 0]}

FetchIdle ==
    /\ tag = ""
    /\ pc = "idle"
    /\ current_chunk_start = 0
    /\ current_chunk_end = 0
    /\ dataframes = <<>>
    /\ result = None
    /\ last_query = NoQuery

MergeIdle == dfs = <<>> /\ merged_df = None /\ merge_pc = "idle"

ValidateIdle ==
    /\ validate_pc = "idle"
    /\ validate_i = 0
    /\ valid_tags = <<>>
    /\ validate_result = <<>>
    /\ checks = <<>>

ApiIdle ==
    /\ api_pc = "idle"
    /\ api_valid_tags = <<>>
    /\ api_i = 0
    /\ api_dataframes = <<>>
    /\ api_returned = {}
    /\ api_merged = None
    /\ response = [status |-> 0]
    /\ remote_calls = {}

ExportIdle ==
    /\ ihrawdata = <<>>
    /\ export_tags = <<>>
    /\ start_time = 0
    /\ end_time = 0
    /\ export_pc = "idle"
    /\ export_i = 0
    /\ current_time = 0
    /\ all_data = <<>>
    /\ pivoted_df = None
    /\ export_response = [status |-> 0]

PoolIdle ==
    /\ pool_size = 0
    /\ pool = <<>>
    /\ thread_pc = <<>>
    /\ connection = <<>>
    /\ outcome = <<>>
    /\ opened = {}

GapIdle == gap_input = None /\ gap_table = None /\ gap_count = 0

Init ==
    /\ MergeIdle
    /\ ValidateIdle
    /\ ApiIdle
    /\ ExportIdle
    /\ PoolIdle
    /\ GapIdle
    /\ config_tags = <<>>
    /\ tag = "X"
    /\ TagData \in [{"X"} -> RowSets]
    /\ start_date \in 0..MaxStart
    /\ end_date \in (start_date + 1)..MaxEnd
    /\ frequency \in Frequencies
    /\ pc = "verify"
    /\ current_chunk_start = 0
    /\ current_chunk_end = 0
    /\ dataframes = <<>>
    /\ result = None
    /\ last_query = NoQuery

\* process_data, lines 445-448: no data, or the check itself failed.
VerifyDataExists ==
    /\ pc = "verify"
    /\ \E connected \in BOOLEAN :
         IF connected /\ verify_data_exists(TagData[tag], start_date, end_date)
         THEN pc' = "generator"
         ELSE pc' = "returned"
    /\ UNCHANGED <<tag, current_chunk_start, current_chunk_end, dataframes, result, last_query,
                   fetchOthers>>

\* process_data_in_chunks, lines 506-523: the frequency is parsed; a
\* frequency that does not parse, or of zero seconds, yields None and ends.
GeneratorStart ==
    /\ pc = "generator"
    /\ IF frequency.parse_ok /\ frequency.total # 0
       THEN /\ current_chunk_start' = start_date
            /\ pc' = "while"
       ELSE /\ current_chunk_start' = current_chunk_start
            /\ pc' = "concat"
    /\ UNCHANGED <<tag, current_chunk_end, dataframes, result, last_query,
                   fetchOthers>>

\* lines 525-526: the loop test and the end of the next chunk.
WhileChunk ==
    /\ pc = "while"
    /\ IF current_chunk_start < end_date
       THEN /\ current_chunk_end' = Min(current_chunk_start + chunk_size, end_date)
            /\ pc' = "query"
       ELSE /\ current_chunk_end' = current_chunk_end
            /\ pc' = "concat"
    /\ UNCHANGED <<tag, current_chunk_start, dataframes, result, last_query,
                   fetchOthers>>

\* lines 528-586 and 594: the query succeeds; a chunk with rows is yielded
\* and kept by process_data (line 453), and the loop moves to the next chunk.
ChunkQueryOk ==
    /\ pc = "query"
    /\ LET rows == BucketQuery(TagData[tag],
                               QueryOrigin(start_date, current_chunk_start),
                               frequency.total,
                               current_chunk_start, current_chunk_end)
       IN dataframes' = IF rows # <<>>
                        THEN Append(dataframes, ChunkFrame(rows, tag))
                        ELSE dataframes
    /\ last_query' = Query(current_chunk_start, current_chunk_end, TRUE)
    /\ current_chunk_start' = current_chunk_end
    /\ pc' = "while"
    /\ UNCHANGED <<tag, current_chunk_end, result,
                   fetchOthers>>

\* lines 588-592: the connection or the query raises; the handler logs and
\* executes `continue`, which goes back to the loop test without line 594.
ChunkQueryError ==
    /\ pc = "query"
    /\ last_query' = Query(current_chunk_start, current_chunk_end, FALSE)
    /\ pc' = "while"
    /\ UNCHANGED <<tag, current_chunk_start, current_chunk_end, dataframes, result,
                   fetchOthers>>

\* process_data, lines 457-466.
ConcatChunks ==
    /\ pc = "concat"
    /\ result' = IF dataframes = <<>>
                 THEN None
                 ELSE sort_index(pd_concat(dataframes))
    /\ pc' = "returned"
    /\ UNCHANGED <<tag, current_chunk_start, current_chunk_end, dataframes, last_query,
                   fetchOthers>>

Next ==
    \/ VerifyDataExists
    \/ GeneratorStart
    \/ WhileChunk
    \/ ChunkQueryOk
    \/ ChunkQueryError
    \/ ConcatChunks

Spec == Init /\ [][Next]_vars

\* The call runs on one thread, which takes its next step whenever it has one.
FairSpec == Spec /\ WF_vars(Next)

----------------------------------------------------------------------------
(* merge_dataframes *)

Reverse(s) == [i \in 1..Len(s) |-> s[Len(s) + 1 - i]]

\* The row of df at index value t, for a frame whose index has no repeats;
\* a row of NaN when t is not in the index.
RowAt(df, t) ==
    IF t \in Range(df.index)
    THEN df.data[CHOOSE i \in 1..Len(df.index) : df.index[i] = t]
    ELSE [j \in 1..Len(df.columns) |-> NaN]

JoinOn(keys, left, right) ==
    DataFrame(keys,
              left.columns \o right.columns,
              [i \in 1..Len(keys) |-> RowAt(left, keys[i]) \o RowAt(right, keys[i])])

\* how='inner' and how='left', the other joins pd.merge offers.
pd_merge_inner(left, right) ==
    JoinOn(SortedSeq(Range(left.index) \cap Range(right.index)), left, right)

pd_merge_left(left, right) == JoinOn(left.index, left, right)

\* pd.merge(left, right, left_index=True, right_index=True, how='outer') of
\* two frames with no repeated index value and no common column name: the
\* keys are the union of both indexes, sorted.
pd_merge(left, right) ==
    JoinOn(SortedSeq(Range(left.index) \cup Range(right.index)), left, right)

\* A loop body that drops the frame pd.merge returns.
merge_step_discarded(merged, df) == merged

\* Line 612: merged_df = pd.merge(merged_df, df, ...).
merge_step(merged, df) == pd_merge(merged, df)

\* Lines 610-618.  merged_id is the position in the dict of the object
\* merged_df refers to, 0 once it is a frame pd.merge built: `df is not
\* merged_df` is false only for the first frame, before any merge.
RECURSIVE MergeLoop(_, _, _, _)
MergeLoop(merged, merged_id, d, k) ==
    IF k > Len(d) THEN merged
    ELSE IF k # merged_id
         THEN MergeLoop(merge_step(merged, d[k].df), 0, d, k + 1)
         ELSE MergeLoop(merged, merged_id, d, k + 1)

\* DataFrame.ffill: each NaN cell takes the last value above it, if any.
RECURSIVE FfillRows(_, _)
FfillRows(data, n) ==
    IF n = 0 THEN <<>>
    ELSE LET above == FfillRows(data, n - 1)
         IN Append(above,
                   [j \in 1..Len(data[n]) |->
                       IF data[n][j] # NaN THEN data[n][j]
                       ELSE IF n > 1 THEN above[n - 1][j]
                       ELSE NaN])

ffill(df) == DataFrame(df.index, df.columns, FfillRows(df.data, Len(df.data)))

\* DataFrame.bfill: each NaN cell takes the next value below it, if any.
bfill(df) ==
    DataFrame(df.index, df.columns,
              Reverse(FfillRows(Reverse(df.data), Len(df.data))))

GapFillBackwardFirst(df) == ffill(bfill(df))

\* ffill(limit=1): a NaN cell takes the cell right above it.
FfillLimitOne(df) ==
    DataFrame(df.index, df.columns,
              [n \in 1..Len(df.data) |->
                  [j \in 1..Len(df.data[n]) |->
                      IF df.data[n][j] = NaN /\ n > 1 THEN df.data[n - 1][j]
                      ELSE df.data[n][j]]])

\* A fill that bridges one row only.
GapFillLimitOne(df) == bfill(FfillLimitOne(df))

\* Line 622: merged_df.ffill().bfill().
GapFill(df) == bfill(ffill(df))

merge_dataframes(d) ==
    IF d = <<>>
    THEN DataFrame(<<>>, <<>>, <<>>)
    ELSE GapFill(sort_index(MergeLoop(d[1].df, 1, d, 1)))

MergeTags == {"A", "B"}

\* Bucket timestamps of the merge inputs, in seconds, on a 60-second grid.
MergeTimes == {60 * k : k \in 0..MaxBucket}

\* The series process_data can return: a non-empty one-column frame with
\* strictly increasing timestamps (C4_StrictlyIncreasing).
Series == UNION {[T -> Values] : T \in (SUBSET MergeTimes) \ {{}}}

SeriesFrame(column, f) ==
    LET index == SortedSeq(DOMAIN f)
    IN DataFrame(index, <<column>>,
                 [i \in 1..Len(index) |-> <<Frac(f[index[i]], 1)>>])

Injective(s) == \A i, j \in 1..Len(s) : s[i] = s[j] => i = j

TagOrders ==
    {o \in UNION {[1..n -> MergeTags] : n \in 0..Cardinality(MergeTags)} :
        Injective(o)}

MergeInit ==
    /\ FetchIdle
    /\ ValidateIdle
    /\ ApiIdle
    /\ ExportIdle
    /\ PoolIdle
    /\ GapIdle
    /\ TagData = <<>>
    /\ start_date = 0
    /\ end_date = 0
    /\ frequency = [parse_ok |-> TRUE, total |-> 60]
    /\ config_tags = <<>>
    /\ \E o \in TagOrders :
         \E f \in [1..Len(o) -> Series] :
            dfs = [k \in 1..Len(o) |-> [tag |-> o[k], df |-> SeriesFrame(o[k], f[k])]]
    /\ merged_df = None
    /\ merge_pc = "call"

MergeDataframes ==
    /\ merge_pc = "call"
    /\ merged_df' = merge_dataframes(dfs)
    /\ merge_pc' = "returned"
    /\ UNCHANGED <<dfs, mergeOthers>>

MergeNext == MergeDataframes

MergeSpec == MergeInit /\ [][MergeNext]_vars

----------------------------------------------------------------------------
(* validate_tags, step by step *)

TagNames == {"X", "Y", "nonexistent"}

\* The tag lists a configuration file can hold, repeats included.
TagLists == UNION {[1..n -> TagNames] : n \in 0..MaxConfigTags}

\* SELECT TOP 1 1 FROM TagData WHERE TagName = ?  followed by fetchone().
tag_exists(t) == TagData[t] # {}

ValidateInit ==
    /\ FetchIdle
    /\ MergeIdle
    /\ ApiIdle
    /\ ExportIdle
    /\ PoolIdle
    /\ GapIdle
    /\ TagData \in {d \in [TagNames -> {{}} \cup {{r} : r \in {q \in Rows : q.ts = 0}}] :
                       d["nonexistent"] = {}}
    /\ start_date = 0
    /\ end_date = MaxEnd
    /\ frequency = [parse_ok |-> TRUE, total |-> 1]
    /\ config_tags \in TagLists
    /\ validate_pc = "connect"
    /\ validate_i = 0
    /\ valid_tags = <<>>
    /\ validate_result = <<>>
    /\ checks = <<>>

\* Lines 393-396: the connection is opened; if that raises, lines 412-414
\* return the empty list.
ValidateConnect ==
    /\ validate_pc = "connect"
    /\ \E connected \in BOOLEAN :
         IF connected
         THEN /\ validate_pc' = "for"
              /\ validate_i' = 1
              /\ UNCHANGED validate_result
         ELSE /\ validate_pc' = "returned"
              /\ validate_result' = <<>>
              /\ UNCHANGED validate_i
    /\ UNCHANGED <<valid_tags, checks, validateOthers>>

\* Lines 398-408: the check of one tag runs; the tag is kept, or a warning
\* is logged for it.
ValidateCheckTag ==
    /\ validate_pc = "for"
    /\ validate_i <= Len(config_tags)
    /\ IF tag_exists(config_tags[validate_i])
       THEN /\ valid_tags' = Append(valid_tags, config_tags[validate_i])
            /\ checks' = Append(checks, "found")
       ELSE /\ valid_tags' = valid_tags
            /\ checks' = Append(checks, "warning: not found")
    /\ validate_i' = validate_i + 1
    /\ UNCHANGED <<validate_pc, validate_result, validateOthers>>

\* Lines 399-403 raise (timeout, lost connection): the except clause of
\* lines 412-414, which encloses the whole loop, returns the empty list.
ValidateCheckError ==
    /\ validate_pc = "for"
    /\ validate_i <= Len(config_tags)
    /\ checks' = Append(checks, "error")
    /\ validate_result' = <<>>
    /\ validate_pc' = "returned"
    /\ UNCHANGED <<validate_i, valid_tags, validateOthers>>

\* Line 410.
ValidateReturn ==
    /\ validate_pc = "for"
    /\ validate_i > Len(config_tags)
    /\ validate_result' = valid_tags
    /\ validate_pc' = "returned"
    /\ UNCHANGED <<validate_i, valid_tags, checks, validateOthers>>

ValidateNext ==
    \/ ValidateConnect
    \/ ValidateCheckTag
    \/ ValidateCheckError
    \/ ValidateReturn

ValidateSpec == ValidateInit /\ [][ValidateNext]_vars

----------------------------------------------------------------------------
(* The /api/process handler, app.process_data *)

\* What validate_tags returns when no connection or check raises.
RECURSIVE validate_tags_value(_)
validate_tags_value(tags) ==
    IF tags = <<>> THEN <<>>
    ELSE (IF tag_exists(Head(tags)) THEN <<Head(tags)>> ELSE <<>>)
             \o validate_tags_value(Tail(tags))

\* The chunks process_data keeps when every chunk query ends by succeeding:
\* the walk of WhileChunk and ChunkQueryOk from chunk_start on.
RECURSIVE ChunkFrames(_, _, _, _)
ChunkFrames(t, chunk_start, lo, hi) ==
    IF chunk_start >= hi THEN <<>>
    ELSE LET chunk_end == Min(chunk_start + chunk_size, hi)
             rows == BucketQuery(TagData[t], QueryOrigin(lo, chunk_start),
                                 frequency.total, chunk_start, chunk_end)
         IN (IF rows # <<>> THEN <<ChunkFrame(rows, t)>> ELSE <<>>)
                \o ChunkFrames(t, chunk_end, lo, hi)

\* What process_data returns for tag t when verify_data_exists is answered.
process_data_value(t) ==
    IF ~verify_data_exists(TagData[t], start_date, end_date) THEN None
    ELSE IF ~(frequency.parse_ok /\ frequency.total # 0) THEN None
    ELSE LET kept == ChunkFrames(t, start_date, start_date, end_date)
         IN IF kept = <<>> THEN None ELSE sort_index(pd_concat(kept))

\* The methods that call the database while process_data runs for tag t:
\* verify_data_exists always, process_data_in_chunks when it has a chunk.
process_data_calls(t) ==
    {"verify_data_exists"}
        \cup (IF /\ verify_data_exists(TagData[t], start_date, end_date)
                 /\ frequency.parse_ok /\ frequency.total # 0
                 /\ start_date < end_date
              THEN {"process_data_in_chunks"}
              ELSE {})

\* Line 377: df is not None and not df.empty.
keep_frame(df) == df # None /\ df.index # <<>>

\* dataframes[tag] = df on a dict kept in insertion order.
DictSet(d, t, df) ==
    IF \E k \in 1..Len(d) : d[k].tag = t
    THEN [k \in 1..Len(d) |-> IF d[k].tag = t THEN [tag |-> t, df |-> df] ELSE d[k]]
    ELSE Append(d, [tag |-> t, df |-> df])

JsonResponse(status, body) == [status |-> status, body |-> body]

ApiInit ==
    /\ FetchIdle
    /\ MergeIdle
    /\ ValidateIdle
    /\ ExportIdle
    /\ PoolIdle
    /\ GapIdle
    /\ TagData \in {d \in [TagNames -> {{}} \cup {{r} : r \in Rows}] :
                       d["nonexistent"] = {}}
    /\ start_date \in {0, MaxEnd - 1}   \* a range, or startDate = endDate
    /\ end_date = MaxEnd - 1      \* the last sample time is out of range
    /\ frequency \in Frequencies
    /\ config_tags \in TagLists
    /\ api_pc = "test"
    /\ api_valid_tags = <<>>
    /\ api_i = 0
    /\ api_dataframes = <<>>
    /\ api_returned = {}
    /\ api_merged = None
    /\ response = [status |-> 0]
    /\ remote_calls = {}

\* Lines 355-365: the request is read, the processor is built and
\* test_database_functionality connects and queries; when it fails the
\* handler logs a warning and goes on.
ApiTestDatabase ==
    /\ api_pc = "test"
    /\ remote_calls' = remote_calls \cup {"test_database_functionality"}
    /\ api_pc' = "validate"
    /\ UNCHANGED <<api_valid_tags, api_i, api_dataframes, api_returned, api_merged,
                   response, apiOthers>>

\* Lines 367-371: the configuration is validated; validate_tags returns the
\* tags found, or the empty list when it caught an exception.
ApiValidate ==
    /\ api_pc = "validate"
    /\ \E valid \in {validate_tags_value(config_tags), <<>>} :
         /\ api_valid_tags' = valid
         /\ IF valid = <<>>
            THEN /\ response' = JsonResponse(400, [error |-> "No valid tags found"])
                 /\ api_pc' = "responded"
                 /\ UNCHANGED api_i
            ELSE /\ api_pc' = "for"
                 /\ api_i' = 1
                 /\ UNCHANGED response
    /\ remote_calls' = remote_calls \cup {"validate_tags"}
    /\ UNCHANGED <<api_dataframes, api_returned, api_merged, apiOthers>>

\* Lines 374-378: process_data runs for the next tag and returns a series,
\* or None (no data, or an error it caught); a series is put in the dict.
ApiProcessTag ==
    /\ api_pc = "for"
    /\ api_i <= Len(api_valid_tags)
    /\ LET t == api_valid_tags[api_i] IN
         \E df \in {process_data_value(t), None} :
            /\ api_dataframes' = IF keep_frame(df)
                                 THEN DictSet(api_dataframes, t, df)
                                 ELSE api_dataframes
            /\ api_returned' = IF df # None /\ df.index # <<>>
                               THEN api_returned \cup {t}
                               ELSE api_returned
            /\ remote_calls' = remote_calls \cup process_data_calls(t)
    /\ api_i' = api_i + 1
    /\ UNCHANGED <<api_pc, api_valid_tags, api_merged, response, apiOthers>>

\* Lines 380-381.
ApiNoData ==
    /\ api_pc = "for"
    /\ api_i > Len(api_valid_tags)
    /\ api_dataframes = <<>>
    /\ response' = JsonResponse(400, [error |-> "No data processed"])
    /\ api_pc' = "responded"
    /\ UNCHANGED <<api_valid_tags, api_i, api_dataframes, api_returned,
                   api_merged, remote_calls, apiOthers>>

\* Lines 383-402: the frames are merged and the table is written; the
\* response names the file, or is the error of lines 400-402 when the
\* write raises.
ApiMergeAndSave ==
    /\ api_pc = "for"
    /\ api_i > Len(api_valid_tags)
    /\ api_dataframes # <<>>
    /\ api_merged' = merge_dataframes(api_dataframes)
    /\ \E written \in BOOLEAN :
         response' = IF written
                     THEN JsonResponse(200,
                              [message |-> "Data processed successfully",
                               processed_files |-> <<"config_timestamp.csv">>])
                     ELSE JsonResponse(500, [error |-> "write failed"])
    /\ api_pc' = "responded"
    /\ UNCHANGED <<api_valid_tags, api_i, api_dataframes, api_returned,
                   remote_calls, apiOthers>>

ApiNext ==
    \/ ApiTestDatabase
    \/ ApiValidate
    \/ ApiProcessTag
    \/ ApiNoData
    \/ ApiMergeAndSave

ApiSpec == ApiInit /\ [][ApiNext]_vars

----------------------------------------------------------------------------
(* The handler's view of the calls it makes: under Spec and ValidateSpec the
   step-by-step calls return the values ApiProcessTag and ApiValidate choose
   from. *)

ProcessDataReturnsValue ==
    pc = "returned" => result \in {process_data_value(tag), None}

ValidateTagsReturnsValue ==
    validate_pc = "returned"
        => validate_result \in {validate_tags_value(config_tags), <<>>}

----------------------------------------------------------------------------
(* Claims about process_data and process_data_in_chunks *)

\* The (bucket timestamp, mean) pairs of a sequence of one-column frames.
FramePairs(frames) ==
    UNION {{<<frames[k].index[i], frames[k].data[i][1]>> : i \in 1..Len(frames[k].index)} :
              k \in 1..Len(frames)}

\* The pairs of one bucket query over the whole range, origin start_date.
OnePassPairs ==
    LET rows == BucketQuery(TagData[tag], start_date, frequency.total,
                            start_date, end_date)
    IN {<<rows[i].timestamp, rows[i].value>> : i \in 1..Len(rows)}

ValidFrequency == frequency.parse_ok /\ frequency.total > 0

\* C1: when process_data_in_chunks has walked the whole range, the
\* (bucket timestamp, mean) pairs of its chunks are those of one pass over
\* the range bucketed from the request start.
C1_ChunksEqualOnePass ==
    (pc \in {"concat", "returned"} /\ ValidFrequency /\ last_query.issued)
        => FramePairs(dataframes) = OnePassPairs

\* The chunks do agree with one pass when the interval divides the chunk
\* width, as 6 hours divide one day.
ChunksEqualOnePassWhenIntervalDividesDay ==
    (pc \in {"concat", "returned"} /\ ValidFrequency /\ last_query.issued
        /\ chunk_size % frequency.total = 0)
        => FramePairs(dataframes) = OnePassPairs

\* C2: a query issued after a failed one is for the chunk that follows the
\* failed chunk, never for the failed chunk again.
C2_FailedChunkSkipped ==
    (pc = "query" /\ last_query.issued /\ ~last_query.ok)
        => /\ current_chunk_start = last_query.chunk_end
           /\ current_chunk_start # last_query.chunk_start

\* C3: a call in which every chunk query fails ends, and returns None.
C3_AllFailReturnsNone ==
    <>((last_query.issued /\ last_query.ok) \/ (pc = "returned" /\ result = None))

\* C4: the series process_data returns has strictly increasing timestamps.
C4_StrictlyIncreasing ==
    (pc = "returned" /\ result # None) => StrictlyIncreasing(result.index)

\* A series made of two chunks, with an interval that does not divide a day.
C4_Witness ==
    /\ pc = "returned"
    /\ result # None
    /\ Len(dataframes) >= 2
    /\ ValidFrequency
    /\ chunk_size % frequency.total # 0

----------------------------------------------------------------------------
(* Claims about merge_dataframes *)

InputTimestamps == UNION {Range(dfs[k].df.index) : k \in 1..Len(dfs)}

\* The value of series df at its bucket t.
BucketValue(df, t) == RowAt(df, t)[1]

\* The cell of the merged frame in row i and the column named c.
Cell(df, i, c) == df.data[i][CHOOSE j \in 1..Len(df.columns) : df.columns[j] = c]

Earlier(df, t) == {u \in Range(df.index) : u < t}

Later(df, t) == {u \in Range(df.index) : u > t}

Latest(S) == CHOOSE u \in S : \A v \in S : v <= u

Earliest(S) == CHOOSE u \in S : \A v \in S : u <= v

\* C5: the index of the merged table is strictly increasing and is the
\* union of the timestamps of the input series, each once.
C5_IndexIsUnion ==
    (merge_pc = "returned" /\ dfs # <<>>)
        => /\ StrictlyIncreasing(merged_df.index)
           /\ Range(merged_df.index) = InputTimestamps
           /\ Len(merged_df.index) = Cardinality(InputTimestamps)
           /\ Len(merged_df.data) = Len(merged_df.index)

\* Two series, each with a timestamp the other lacks.
C5_Witness ==
    /\ merge_pc = "returned"
    /\ Len(dfs) = 2
    /\ Range(dfs[1].df.index) \ Range(dfs[2].df.index) # {}
    /\ Range(dfs[2].df.index) \ Range(dfs[1].df.index) # {}
    /\ Range(merged_df.index) = InputTimestamps

\* C6: a cell holds the tag's bucket at that timestamp; with no bucket
\* there, the tag's latest earlier bucket; with no earlier bucket, the tag's
\* earliest bucket; so no cell is empty.
C6_CellValues ==
    (merge_pc = "returned" /\ dfs # <<>>)
        => \A k \in 1..Len(dfs) : \A i \in 1..Len(merged_df.index) :
              LET t == merged_df.index[i]
                  s == dfs[k].df
                  cell == Cell(merged_df, i, dfs[k].tag)
              IN /\ cell # NaN
                 /\ cell = IF t \in Range(s.index) THEN BucketValue(s, t)
                           ELSE IF Earlier(s, t) # {}
                                THEN BucketValue(s, Latest(Earlier(s, t)))
                                ELSE BucketValue(s, Earliest(Range(s.index)))

\* A at {0, 60, 120} and B at {60, 120, 180} with different values at 60 and
\* 120: the table has rows {0, 60, 120, 180} and B at row 0 is B's value at 60.
C6_Witness ==
    /\ merge_pc = "returned"
    /\ Len(dfs) = 2
    /\ dfs[1].tag = "A" /\ dfs[1].df.index = <<0, 60, 120>>
    /\ dfs[2].tag = "B" /\ dfs[2].df.index = <<60, 120, 180>>
    /\ BucketValue(dfs[2].df, 60) # BucketValue(dfs[2].df, 120)
    /\ merged_df.index = <<0, 60, 120, 180>>
    /\ Cell(merged_df, 1, "B") = BucketValue(dfs[2].df, 60)
    /\ Cell(merged_df, 1, "A") = BucketValue(dfs[1].df, 0)

\* A grid timestamp between two buckets of series k that the series lacks.
GapOf(k, t) ==
    /\ t \notin Range(dfs[k].df.index)
    /\ Earlier(dfs[k].df, t) # {}
    /\ Later(dfs[k].df, t) # {}

ForwardFilledAt(k, t) ==
    /\ t \in Range(merged_df.index)
    /\ \A i \in 1..Len(merged_df.index) :
          merged_df.index[i] = t
              => Cell(merged_df, i, dfs[k].tag)
                     = BucketValue(dfs[k].df, Latest(Earlier(dfs[k].df, t)))

\* C7, as stated: a grid timestamp between two buckets of a tag and missing
\* from its series is a row of the merged table, with the forward-filled value.
C7_GapRowPresent ==
    merge_pc = "returned"
        => \A k \in 1..Len(dfs) : \A t \in MergeTimes :
              GapOf(k, t) => ForwardFilledAt(k, t)

\* C7, amended: such a timestamp is a row of the merged table, with the
\* forward-filled value, when another series has a bucket there; when no
\* series has one the table has no row for it.
C7_GapRowFromOtherTag ==
    merge_pc = "returned"
        => \A k \in 1..Len(dfs) : \A t \in MergeTimes :
              GapOf(k, t)
                  => IF t \in InputTimestamps
                     THEN ForwardFilledAt(k, t)
                     ELSE t \notin Range(merged_df.index)

\* A at {0, 60, 180}, B with a bucket at 120: A at row 120 is A's value at 60.
C7_Witness ==
    /\ merge_pc = "returned"
    /\ Len(dfs) = 2
    /\ dfs[1].tag = "A" /\ dfs[1].df.index = <<0, 60, 180>>
    /\ 120 \in Range(dfs[2].df.index)
    /\ BucketValue(dfs[1].df, 60) # BucketValue(dfs[1].df, 180)
    /\ ForwardFilledAt(1, 120)

----------------------------------------------------------------------------
(* Claims about validate_tags *)

\* The input tags whose existence check ran and found the tag, in order.
RECURSIVE FoundTags(_)
FoundTags(n) ==
    IF n = 0 THEN <<>>
    ELSE IF checks[n] = "found"
         THEN Append(FoundTags(n - 1), config_tags[n])
         ELSE FoundTags(n - 1)

\* C10: validate_tags returns the input tags whose check succeeded, in
\* input order, whatever happened to the checks of the other tags.
C10_ValidSubsetReturned ==
    validate_pc = "returned" => validate_result = FoundTags(Len(checks))

----------------------------------------------------------------------------
(* Claims about the /api/process handler *)

\* Tag t has a sample with a value inside the request range.
HasBucket(t) ==
    \E r \in TagData[t] : r.ts >= start_date /\ r.ts < end_date /\ r.val # NULL

MergedColumns == Range(api_merged.columns)

\* C8: the columns of the merged table are the tags for which process_data
\* returned a non-empty series, each once; a validated tag with zero
\* buckets in the range is no column, and no column is empty.
C8_ColumnsAreTagsWithData ==
    response.status = 200
        => /\ MergedColumns = api_returned
           /\ Len(api_merged.columns) = Cardinality(api_returned)
           /\ \A t \in Range(api_valid_tags) : ~HasBucket(t) => t \notin MergedColumns
           /\ \A j \in 1..Len(api_merged.columns) :
                 \E i \in 1..Len(api_merged.index) : api_merged.data[i][j] # NaN

\* Two tags validated, one with zero buckets in the range and one with data.
C8_Witness ==
    /\ response.status = 200
    /\ \E t \in Range(api_valid_tags) : ~HasBucket(t)
    /\ Cardinality(Range(api_valid_tags)) = 2
    /\ Cardinality(MergedColumns) = 1

\* The strings of a response body.
NamedIn(body) == {body.message} \cup Range(body.processed_files)

\* C9: a successful response names every requested tag its table omits.
C9_DroppedTagsEnumerated ==
    response.status = 200
        => (Range(config_tags) \ MergedColumns) \subseteq NamedIn(response.body)

\* The request carries a configuration error: an interval of zero or less,
\* a range with start at or after end, or no tag.
ConfigurationError ==
    \/ frequency.parse_ok /\ frequency.total <= 0
    \/ start_date >= end_date
    \/ config_tags = <<>>

\* C11: a request with a configuration error is answered with an error, and
\* no method has called the database at any moment of such a request.
C11_RejectedBeforeRemoteCall ==
    ConfigurationError
        => /\ remote_calls = {}
           /\ api_pc = "responded" => response.status \in {400, 500}

----------------------------------------------------------------------------
(* The /api/export handler, app.export_data *)

(* Export times are counted in units of 3 hours.  A tag of the request is    *)
(* [prefix, name, suffix]: whether the string starts with 'MELSRV01.', what  *)
(* lies between, and whether it ends with '.F_CV'.                           *)

MaxExportEnd == 4   \* endTime is at most MaxExportEnd; rows lie in 0..MaxExportEnd
MaxExportTags == 2  \* tags in one export request

\* query_step = timedelta(hours=6), in units of 3 hours.
query_step == 2

ExportTag(prefix, name, suffix) == [prefix |-> prefix, name |-> name, suffix |-> suffix]

\* Lines 180-183: the prefix and the suffix are added when missing.
ExportTagName(t) == ExportTag(TRUE, t.name, TRUE)

\* Line 226: the prefix and the suffix are removed from a column name.
CleanColumn(tagname) == tagname.name

ExportTagNames ==
    {ExportTag(FALSE, "A", FALSE), ExportTag(TRUE, "A", TRUE), ExportTag(FALSE, "B", FALSE)}

ExportTagLists == UNION {[1..n -> ExportTagNames] : n \in 0..MaxExportTags}

\* The rows the historian holds for one tag: timestamp -> value, at most
\* MaxSamples of them.
ExportRows ==
    UNION {[T -> Values] : T \in {U \in SUBSET (0..MaxExportEnd) : Cardinality(U) <= MaxSamples}}

\* Lines 189-202: the rows of tagname with lo <= timestamp <= hi, both ends
\* included, as tuples (tagname, timestamp, value).
ExportQuery(tagname, lo, hi) ==
    LET stamps == SortedSeq({t \in DOMAIN ihrawdata[tagname] : t >= lo /\ t <= hi})
    IN [i \in 1..Len(stamps) |->
           [tagname |-> tagname, timestamp |-> stamps[i],
            value |-> ihrawdata[tagname][stamps[i]]]]

\* Two rows with the same timestamp and tagname: what DataFrame.pivot
\* refuses with ValueError.
DuplicateEntries(data) ==
    \E i, j \in 1..Len(data) :
        i < j /\ data[i].tagname = data[j].tagname /\ data[i].timestamp = data[j].timestamp

\* Lines 219-229: df.pivot(index='timestamp', columns='tagname',
\* values='value') of rows without duplicate entries, the column names
\* cleaned, sorted by timestamp.
pivot(data) ==
    LET index == SortedSeq({data[i].timestamp : i \in 1..Len(data)})
        names == {CleanColumn(data[i].tagname) : i \in 1..Len(data)}
        columns == SelectSeq(<<"A", "B">>, LAMBDA c : c \in names)
        cell(t, c) ==
            IF \E i \in 1..Len(data) : data[i].timestamp = t /\ CleanColumn(data[i].tagname) = c
            THEN LET i == CHOOSE k \in 1..Len(data) :
                              data[k].timestamp = t /\ CleanColumn(data[k].tagname) = c
                 IN Frac(data[i].value, 1)
            ELSE NaN
    IN DataFrame(index, columns,
                 [i \in 1..Len(index) |-> [j \in 1..Len(columns) |-> cell(index[i], columns[j])]])

ExportResponse(status, text) == [status |-> status, body |-> text]

ExportInit ==
    /\ FetchIdle
    /\ MergeIdle
    /\ ValidateIdle
    /\ ApiIdle
    /\ PoolIdle
    /\ GapIdle
    /\ TagData = <<>>
    /\ start_date = 0
    /\ end_date = 0
    /\ frequency = [parse_ok |-> TRUE, total |-> 1]
    /\ config_tags = <<>>
    /\ ihrawdata \in [{ExportTagName(t) : t \in ExportTagNames} -> ExportRows]
    /\ export_tags \in ExportTagLists
    /\ start_time = 0
    /\ end_time \in 1..MaxExportEnd
    /\ export_pc = "connect"
    /\ export_i = 0
    /\ current_time = 0
    /\ all_data = <<>>
    /\ pivoted_df = None
    /\ export_response = [status |-> 0]

\* Lines 175-177 and 185: the connection is opened and the loop over the
\* tags starts; when the connection fails, lines 211-213 answer 500.
ExportConnect ==
    /\ export_pc = "connect"
    /\ \E connected \in BOOLEAN :
         IF connected
         THEN /\ export_pc' = "while"
              /\ export_i' = 1
              /\ current_time' = start_time
              /\ UNCHANGED export_response
         ELSE /\ export_pc' = "responded"
              /\ export_response' = ExportResponse(500, "Database error")
              /\ UNCHANGED <<export_i, current_time>>
    /\ UNCHANGED <<ihrawdata, export_tags, start_time, end_time, all_data, pivoted_df,
                   exportOthers>>

\* Lines 186-207: one chunk query of the current tag succeeds; its rows are
\* appended to all_data and current_time moves on by query_step.
ExportChunkQueryOk ==
    /\ export_pc = "while"
    /\ export_i <= Len(export_tags)
    /\ current_time <= end_time
    /\ LET chunk_end == Min(current_time + query_step, end_time)
           chunk_data == ExportQuery(ExportTagName(export_tags[export_i]),
                                     current_time, chunk_end)
       IN all_data' = all_data \o chunk_data
    /\ current_time' = current_time + query_step
    /\ UNCHANGED <<ihrawdata, export_tags, start_time, end_time, export_pc, export_i,
                   pivoted_df, export_response, exportOthers>>

\* Lines 201-202 raise: the except clause of lines 211-213, which encloses
\* the loop over all tags, answers 500.
ExportChunkQueryError ==
    /\ export_pc = "while"
    /\ export_i <= Len(export_tags)
    /\ current_time <= end_time
    /\ export_response' = ExportResponse(500, "Database error")
    /\ export_pc' = "responded"
    /\ UNCHANGED <<ihrawdata, export_tags, start_time, end_time, export_i, current_time,
                   all_data, pivoted_df, exportOthers>>

\* Lines 179-186: the while loop of a tag is over; the next tag starts at
\* start_time.
ExportNextTag ==
    /\ export_pc = "while"
    /\ export_i <= Len(export_tags)
    /\ current_time > end_time
    /\ export_i' = export_i + 1
    /\ current_time' = start_time
    /\ UNCHANGED <<ihrawdata, export_tags, start_time, end_time, export_pc, all_data,
                   pivoted_df, export_response, exportOthers>>

\* Lines 215-216.
ExportNoData ==
    /\ export_pc = "while"
    /\ export_i > Len(export_tags)
    /\ all_data = <<>>
    /\ export_response' = ExportResponse(404, "No data found for the specified criteria")
    /\ export_pc' = "responded"
    /\ UNCHANGED <<ihrawdata, export_tags, start_time, end_time, export_i, current_time,
                   all_data, pivoted_df, exportOthers>>

\* Lines 218-244: the rows are pivoted and the table is written.  pivot
\* raises on duplicate entries and to_csv can fail; both reach the except
\* clause of lines 242-244.
ExportPivotAndSave ==
    /\ export_pc = "while"
    /\ export_i > Len(export_tags)
    /\ all_data # <<>>
    /\ IF DuplicateEntries(all_data)
       THEN /\ export_response' =
                  ExportResponse(500, "Index contains duplicate entries, cannot reshape")
            /\ UNCHANGED pivoted_df
       ELSE /\ pivoted_df' = pivot(all_data)
            /\ \E written \in BOOLEAN :
                 export_response' = IF written
                                    THEN ExportResponse(200, "Data exported successfully")
                                    ELSE ExportResponse(500, "write failed")
    /\ export_pc' = "responded"
    /\ UNCHANGED <<ihrawdata, export_tags, start_time, end_time, export_i, current_time,
                   all_data, exportOthers>>

ExportNext ==
    \/ ExportConnect
    \/ ExportChunkQueryOk
    \/ ExportChunkQueryError
    \/ ExportNextTag
    \/ ExportNoData
    \/ ExportPivotAndSave

ExportSpec == ExportInit /\ [][ExportNext]_vars

----------------------------------------------------------------------------
(* Claims about the /api/export handler *)

\* The rows of the k-th tag of the request inside [start_time, end_time].
ExportRowsInRange(k) ==
    {t \in DOMAIN ihrawdata[ExportTagName(export_tags[k])] : t >= start_time /\ t <= end_time}

\* The table has the column of the k-th tag, with every row of the tag.
ExportColumnPresent(k) ==
    /\ pivoted_df # None
    /\ export_tags[k].name \in Range(pivoted_df.columns)
    /\ \A t \in ExportRowsInRange(k) :
          \E i \in 1..Len(pivoted_df.index) :
              /\ pivoted_df.index[i] = t
              /\ Cell(pivoted_df, i, export_tags[k].name)
                     = Frac(ihrawdata[ExportTagName(export_tags[k])][t], 1)

\* C12: when a chunk query of one tag fails, the export still succeeds and
\* its table holds the full column of every tag whose own chunk queries
\* all succeeded.
C12_FailingChunkDoesNotAbort ==
    (export_pc = "responded" /\ export_response.body = "Database error")
        => \A k \in 1..Len(export_tags) :
              (k < export_i /\ ExportRowsInRange(k) # {})
                  => export_response.status = 200 /\ ExportColumnPresent(k)

\* The rows of all_data with the tagname and timestamp of row i.
SameEntry(i) ==
    {j \in 1..Len(all_data) :
        /\ all_data[j].tagname = all_data[i].tagname
        /\ all_data[j].timestamp = all_data[i].timestamp}

\* C13: when every chunk query succeeded and two chunks of a tag returned
\* a row for the same seam timestamp, the export succeeds and its table has
\* exactly one row for that timestamp, holding the first value seen.
C13_SeamRowsDeduplicated ==
    (/\ export_pc = "responded"
     /\ export_i > Len(export_tags)
     /\ Injective([k \in 1..Len(export_tags) |-> ExportTagName(export_tags[k])])
     /\ export_response.body # "write failed")
        => \A i \in 1..Len(all_data) :
              Cardinality(SameEntry(i)) > 1
                  => /\ export_response.status = 200
                     /\ Cardinality({r \in 1..Len(pivoted_df.index) :
                                        pivoted_df.index[r] = all_data[i].timestamp}) = 1
                     /\ \A r \in 1..Len(pivoted_df.index) :
                           pivoted_df.index[r] = all_data[i].timestamp
                               => Cell(pivoted_df, r, CleanColumn(all_data[i].tagname))
                                      = Frac(all_data[CHOOSE j \in SameEntry(i) :
                                                 \A m \in SameEntry(i) : j <= m].value, 1)

----------------------------------------------------------------------------
(* ConnectionPool, used by several threads *)

MaxPoolSize == 2   \* pool_size is 1..MaxPoolSize
MaxThreads == 3    \* threads that use connections at the same time

Threads == 1..MaxThreads

\* The i-th connection created by the constructor.
PoolHandle(i) == [pooled |-> TRUE, id |-> i]

PoolHandles == {PoolHandle(i) : i \in 1..pool_size}

\* A queue that hands out its oldest handle without removing it.
QueuePeek(q) == q

\* Queue.get(): the queue after its oldest handle is taken.
QueueGet(q) == Tail(q)

\* A put that loses the handle.
QueuePutDiscard(q, c) == q

\* Queue.put(c).
QueuePut(q, c) == Append(q, c)

\* A release on the normal exit only.
PutOnReturnOnly(q, c, raised) == IF raised THEN q ELSE QueuePut(q, c)

\* Lines 18-21: try / yield / finally: the put runs on both exits.
Finally(q, c, raised) == QueuePut(q, c)

PoolInit ==
    /\ FetchIdle
    /\ MergeIdle
    /\ ValidateIdle
    /\ ApiIdle
    /\ ExportIdle
    /\ GapIdle
    /\ TagData = <<>>
    /\ start_date = 0
    /\ end_date = 0
    /\ frequency = [parse_ok |-> TRUE, total |-> 1]
    /\ config_tags = <<>>
    /\ pool_size \in 1..MaxPoolSize
    /\ pool = [i \in 1..pool_size |-> PoolHandle(i)]
    /\ thread_pc = [t \in Threads |-> "idle"]
    /\ connection = [t \in Threads |-> None]
    /\ outcome = [t \in Threads |-> "none"]
    /\ opened = {}

\* A thread reaches `with pool.get_connection()` and calls self.pool.get().
PoolEnter(t) ==
    /\ thread_pc[t] = "idle"
    /\ thread_pc' = [thread_pc EXCEPT ![t] = "get"]
    /\ UNCHANGED <<pool_size, pool, connection, outcome, opened, poolOthers>>

\* Line 17: self.pool.get() returns the oldest idle handle; it blocks while
\* the queue is empty.  Line 19 yields the handle to the with-block.
PoolGet(t) ==
    /\ thread_pc[t] = "get"
    /\ pool # <<>>
    /\ connection' = [connection EXCEPT ![t] = Head(pool)]
    /\ pool' = QueueGet(pool)
    /\ thread_pc' = [thread_pc EXCEPT ![t] = "yield"]
    /\ UNCHANGED <<pool_size, outcome, opened, poolOthers>>

\* The with-block ends, by reaching its end or by raising.
PoolBlockExit(t) ==
    /\ thread_pc[t] = "yield"
    /\ \E raised \in BOOLEAN :
         outcome' = [outcome EXCEPT ![t] = IF raised THEN "raising" ELSE "returning"]
    /\ thread_pc' = [thread_pc EXCEPT ![t] = "finally"]
    /\ UNCHANGED <<pool_size, pool, connection, opened, poolOthers>>

\* Lines 20-21: the finally clause puts the handle back (put blocks while
\* the queue is full); the with statement then ends, or re-raises the
\* exception of the block to the caller.
PoolPut(t) ==
    /\ thread_pc[t] = "finally"
    /\ Len(pool) < pool_size
    /\ pool' = Finally(pool, connection[t], outcome[t] = "raising")
    /\ connection' = [connection EXCEPT ![t] = None]
    /\ outcome' = [outcome EXCEPT ![t] = IF outcome[t] = "raising" THEN "raised" ELSE "returned"]
    /\ thread_pc' = [thread_pc EXCEPT ![t] = "idle"]
    /\ UNCHANGED <<pool_size, opened, poolOthers>>

PoolNext ==
    \E t \in Threads :
        \/ PoolEnter(t)
        \/ PoolGet(t)
        \/ PoolBlockExit(t)
        \/ PoolPut(t)

PoolSpec == PoolInit /\ [][PoolNext]_vars

\* A thread blocked in self.pool.get() gets a handle if handles keep
\* becoming idle, and a finally clause that is reached runs.  A thread need
\* not enter the with-statement, and the block that holds a handle need not
\* ever end.
PoolFairSpec ==
    PoolSpec /\ \A t \in Threads : SF_vars(PoolGet(t)) /\ WF_vars(PoolPut(t))

----------------------------------------------------------------------------
(* Claims about ConnectionPool *)

\* The handles held by threads.
Borrowed == {connection[t] : t \in Threads} \ {None}

Borrowers(c) == {t \in Threads : connection[t] = c}

\* C14: the idle handles and the borrowed handles are together exactly the
\* pool_size handles the constructor created, no handle is both idle and
\* borrowed or twice in the queue or held twice, and the queue never holds
\* more than pool_size.
C14_HandlesConserved ==
    /\ Range(pool) \cup Borrowed = PoolHandles
    /\ Range(pool) \cap Borrowed = {}
    /\ Injective(pool)
    /\ \A c \in Borrowed : Cardinality(Borrowers(c)) = 1
    /\ Len(pool) + Cardinality(Borrowed) = pool_size
    /\ Len(pool) <= pool_size

\* Every handle of a pool of two is borrowed, one block has raised before,
\* and a further thread waits.
C14_Witness ==
    /\ pool_size = MaxPoolSize
    /\ pool = <<>>
    /\ Cardinality(Borrowed) = pool_size
    /\ \E t \in Threads : thread_pc[t] = "get"
    /\ \E t \in Threads : outcome[t] = "raised"

\* C15: no handle is held by two threads; a thread leaves self.pool.get()
\* only with a handle that was idle in the queue, so with every handle
\* borrowed it stays suspended until a borrower has put one back.
C15_OneBorrowerAndSuspension ==
    /\ [](\A t, u \in Threads :
             (t # u /\ connection[t] # None) => connection[t] # connection[u])
    /\ [][\A t \in Threads :
             (thread_pc[t] = "get" /\ thread_pc'[t] # "get")
                 => /\ pool # <<>>
                    /\ connection'[t] = Head(pool)
                    /\ Borrowers(connection'[t]) = {}]_vars

\* A thread holds a handle that another thread held and put back while a
\* third thread is suspended in get.
C15_Witness ==
    /\ pool = <<>>
    /\ \E t, u, w \in Threads :
          /\ connection[t] # None
          /\ outcome[t] = "none"
          /\ outcome[u] \in {"returned", "raised"}
          /\ thread_pc[u] = "idle"
          /\ thread_pc[w] = "get"
          /\ pool_size = 1

\* C16: when a with-block ends, raising or not, its handle is idle in the
\* queue right after the finally clause and the thread holds nothing; the
\* exception of a block that raised reaches the caller.
C16_ReleasedOnEveryExit ==
    [][\A t \in Threads :
          (thread_pc[t] = "finally" /\ thread_pc'[t] = "idle")
              => /\ connection[t] \in Range(pool')
                 /\ connection'[t] = None
                 /\ outcome[t] = "raising" => outcome'[t] = "raised"
                 /\ outcome[t] = "returning" => outcome'[t] = "returned"]_vars

\* A block raised, its thread holds nothing and every handle is idle.
C16_Witness ==
    /\ \E t \in Threads : outcome[t] = "raised" /\ thread_pc[t] = "idle"
    /\ Borrowed = {}
    /\ Range(pool) = PoolHandles

----------------------------------------------------------------------------
(* The gap fill of merge_dataframes as a function of a table *)

MaxFills == 2   \* the fill is applied at most MaxFills times to a table

Cells == {NaN} \cup {Frac(v, 1) : v \in Values}

MergeTagOrder == <<"A", "B">>

\* The tables of n rows on the 60-second grid and m columns, every cell a
\* value or NaN.
TablesOf(n, m) ==
    {DataFrame([i \in 1..n |-> 60 * (i - 1)], SubSeq(MergeTagOrder, 1, m), d) :
        d \in [1..n -> [1..m -> Cells]]}

Tables ==
    UNION {TablesOf(n, m) : n \in 0..MaxBucket, m \in 1..Len(MergeTagOrder)}

GapInit ==
    /\ FetchIdle
    /\ MergeIdle
    /\ ValidateIdle
    /\ ApiIdle
    /\ ExportIdle
    /\ PoolIdle
    /\ TagData = <<>>
    /\ start_date = 0
    /\ end_date = 0
    /\ frequency = [parse_ok |-> TRUE, total |-> 60]
    /\ config_tags = <<>>
    /\ gap_input \in Tables
    /\ gap_table = gap_input
    /\ gap_count = 0

\* Line 622: merged_df = merged_df.ffill().bfill().
GapFillApply ==
    /\ gap_count < MaxFills
    /\ gap_table' = GapFill(gap_table)
    /\ gap_count' = gap_count + 1
    /\ UNCHANGED <<gap_input, gapOthers>>

GapNext == GapFillApply

GapSpec == GapInit /\ [][GapNext]_vars

\* C17: a table filled once or several times is the table filled once.
C17_GapFillIdempotent ==
    gap_count >= 1 => gap_table = GapFill(gap_input)

\* A table of three rows or more that starts with an empty cell, has an
\* empty column, and was filled twice; the fill changed it.
C17_Witness ==
    /\ gap_count = 2
    /\ Len(gap_input.index) >= 3
    /\ Len(gap_input.columns) = 2
    /\ gap_input.data[1][1] = NaN
    /\ gap_input.data[2][1] # NaN
    /\ gap_input.data[3][1] = NaN
    /\ \A i \in 1..Len(gap_input.index) : gap_input.data[i][2] = NaN
    /\ gap_table # gap_input
    /\ gap_table.data[3][1] = gap_input.data[2][1]

----------------------------------------------------------------------------
(* Claims about the chunk walk of process_data_in_chunks *)

\* The bucket timestamps of the chunks yielded so far.
EmittedTimestamps == UNION {Range(dataframes[k].index) : k \in 1..Len(dataframes)}

\* C18: every bucket timestamp of every chunk is the request start plus a
\* non-negative multiple of the interval.
C18_BucketsAlignedToRequestStart ==
    ValidFrequency
        => \A ts \in EmittedTimestamps :
              /\ ts >= start_date
              /\ (ts - start_date) % frequency.total = 0

\* C19: the window of a chunk query is at most chunk_size long and not
\* empty, and shorter than chunk_size only when it ends at end_date; the
\* first window starts at start_date; a window issued after a query that
\* succeeded starts where that query's window ended; and the walk ends
\* only after the window that ends at end_date.
C19_WindowsPartitionRange ==
    /\ pc = "query"
          => /\ current_chunk_start < current_chunk_end
             /\ current_chunk_end - current_chunk_start <= chunk_size
             /\ current_chunk_end - current_chunk_start < chunk_size
                    => current_chunk_end = end_date
             /\ current_chunk_end <= end_date
             /\ ~last_query.issued => current_chunk_start = start_date
             /\ (last_query.issued /\ last_query.ok)
                    => current_chunk_start = last_query.chunk_end
    /\ (pc \in {"concat", "returned"} /\ last_query.issued)
          => last_query.ok /\ last_query.chunk_end = end_date

\* The walk of a range of more than one chunk whose last window is shorter
\* than a chunk has ended.
C19_Witness ==
    /\ pc = "concat"
    /\ last_query.issued
    /\ end_date - start_date > chunk_size
    /\ (end_date - start_date) % chunk_size # 0
    /\ last_query.chunk_end - last_query.chunk_start < chunk_size
    /\ last_query.chunk_end = end_date

----------------------------------------------------------------------------
(* The connections of the fetch path: process_data_in_chunks run by several
   threads of the server at the same time *)

\* The k-th connection thread t has opened with get_db_connection.
OwnConnection(t, k) == [pooled |-> FALSE, thread |-> t, id |-> k]

\* The connections of thread t that are open.
OpenedBy(t) == {c \in opened : c.thread = t}

FetchConnInit ==
    /\ FetchIdle
    /\ MergeIdle
    /\ ValidateIdle
    /\ ApiIdle
    /\ ExportIdle
    /\ GapIdle
    /\ TagData = <<>>
    /\ start_date = 0
    /\ end_date = 0
    /\ frequency = [parse_ok |-> TRUE, total |-> 1]
    /\ config_tags = <<>>
    /\ pool_size \in 1..MaxPoolSize   \* the size a ConnectionPool would have
    /\ pool = <<>>                    \* no module constructs a ConnectionPool
    /\ thread_pc = [t \in Threads |-> "idle"]
    /\ connection = [t \in Threads |-> None]
    /\ outcome = [t \in Threads |-> "none"]
    /\ opened = {}

\* Line 529 and lines 233-262: get_db_connection opens a connection of its
\* own with pyodbc.connect; the connection of the previous chunk is still
\* referenced by the locals conn and cursor.
FetchGetDbConnection(t) ==
    /\ thread_pc[t] \in {"idle", "left"}
    /\ LET c == OwnConnection(t, CHOOSE k \in 1..2 : OwnConnection(t, k) \notin opened)
       IN /\ opened' = opened \cup {c}
          /\ connection' = [connection EXCEPT ![t] = c]
    /\ thread_pc' = [thread_pc EXCEPT ![t] = "connected"]
    /\ UNCHANGED <<pool_size, pool, outcome, poolOthers>>

\* Line 571: cursor is rebound; the previous connection loses its last
\* reference and is closed.
FetchCursor(t) ==
    /\ thread_pc[t] = "connected"
    /\ opened' = opened \ (OpenedBy(t) \ {connection[t]})
    /\ thread_pc' = [thread_pc EXCEPT ![t] = "query"]
    /\ UNCHANGED <<pool_size, pool, connection, outcome, poolOthers>>

\* Lines 572-592: the query returns or raises and the with-block is left;
\* leaving it commits and does not close the connection.
FetchQueryDone(t) ==
    /\ thread_pc[t] = "query"
    /\ \E raised \in BOOLEAN :
         outcome' = [outcome EXCEPT ![t] = IF raised THEN "raised" ELSE "returned"]
    /\ thread_pc' = [thread_pc EXCEPT ![t] = "left"]
    /\ UNCHANGED <<pool_size, pool, connection, opened, poolOthers>>

\* Line 525: the loop ends and the generator is released; its connection is
\* closed with it.
FetchGeneratorEnd(t) ==
    /\ thread_pc[t] = "left"
    /\ opened' = opened \ OpenedBy(t)
    /\ connection' = [connection EXCEPT ![t] = None]
    /\ thread_pc' = [thread_pc EXCEPT ![t] = "idle"]
    /\ UNCHANGED <<pool_size, pool, outcome, poolOthers>>

FetchConnNext ==
    \E t \in Threads :
        \/ FetchGetDbConnection(t)
        \/ FetchCursor(t)
        \/ FetchQueryDone(t)
        \/ FetchGeneratorEnd(t)

FetchConnSpec == FetchConnInit /\ [][FetchConnNext]_vars

\* C20: a chunk query runs on a handle borrowed from the pool, a thread
\* that is done with its chunk holds no connection, and the connections
\* open at once are never more than pool_size.
C20_FetchUsesPool ==
    /\ \A t \in Threads :
          /\ thread_pc[t] = "query" => connection[t].pooled
          /\ thread_pc[t] = "left" => connection[t] = None
    /\ Cardinality(opened \cup Borrowed) <= pool_size

\* The part of C20 about the number of connections, on its own.
OpenConnectionsWithinPoolSize == Cardinality(opened) <= pool_size

----------------------------------------------------------------------------
(* Claims about the interval of process_data_in_chunks *)

\* C21: for a frequency whose total is zero or negative no bucket query is
\* issued and no chunk is yielded.
C21_NonPositiveIntervalInvalid ==
    (frequency.parse_ok /\ frequency.total <= 0)
        => ~last_query.issued /\ dataframes = <<>>

\* The part of C21 about a total of zero, which line 517 tests.
ZeroIntervalInvalid ==
    (frequency.parse_ok /\ frequency.total = 0)
        => ~last_query.issued /\ dataframes = <<>>

----------------------------------------------------------------------------
(* Claims about waiting for a connection *)

\* C22: a thread that waits in get_connection for a handle does not wait
\* for ever, even when no handle is put back: it leaves self.pool.get(),
\* with a handle or with an error.
C22_AcquireDoesNotBlockForever ==
    \A t \in Threads : (thread_pc[t] = "get") ~> (thread_pc[t] # "get")

====
